---- MODULE Spec2Model ----
(***************************************************************************)
(* FixedAllocator (src/src/allocator/fixAlloc.cpp): a pool of num_blocks_  *)
(* blocks of block_size_ bytes, a bitmap of used blocks and a free         *)
(* counter.  Three specifications share the allocator's state:             *)
(*   Spec        one caller issuing allocate()/deallocate(p) in any order  *)
(*   SpecLimits  the driver test_allocator_limits of src/main.cpp          *)
(*   SpecConc    threads running allocate()/deallocate() cycles, each      *)
(*               memory access of allocate() being one step                *)
(***************************************************************************)
EXTENDS Integers, Sequences, FiniteSets, TLC

(* ------------------------------ bounds --------------------------------- *)
MaxBlockSize == 9
MaxBlocks == 3
MaxBaseSlots == 2
MaxCalls == 5
NumThreads == 2
Cycles == 2
MaxDataByte == 2
MaxHandles == 2
MaxHandlePtrs == 2

(* ------------------------- program constants --------------------------- *)
\* size_t is modelled at SizeBits bits: arithmetic on it is modulo 2^SizeBits
SizeBits == 12
SizeMod == 2 ^ SizeBits
\* alignment_(sizeof(void*))
Alignment == 8
\* nullptr
NULL == 0
\* for (int i = 0; i < 5; ++i) in test_allocator_limits
ATTEMPTS == 5
\* static constexpr uint8_t POISON_BYTE = 0xDD
POISON_BYTE == 221
\* std::memset(memory_pool_, 0, total_size)
ZERO_BYTE == 0

VARIABLES
    block_size_,        \* aligned block size
    num_blocks_,
    memory_pool_,       \* address of the pool
    block_bitmap_,      \* [0..num_blocks_-1 -> BOOLEAN], TRUE = used
    free_blocks_count_,
    stats_,             \* the Statistics counters the claims name
    ptrs,               \* the caller's pointers obtained from allocate()
    op,                 \* the last call: name, argument, result
    ncalls,             \* number of calls made by the caller
    pc,                 \* position of the driver of main.cpp
    attempt,            \* loop counter of the driver
    dealloc_ok,         \* results of the driver's deallocate calls
    tpc,                \* per thread: position inside allocate()/deallocate()
    tloc,               \* per thread: locals (scan index, loaded bitmap word)
    tptr,               \* per thread: the pointer allocate() returned
    tlive,              \* per thread: pointers obtained and not yet freed
    tcycles,            \* per thread: cycles completed
    ctor,               \* the constructor call: arguments, position, outcome
    payload,            \* per block: the byte its payload is filled with
    handles,            \* the AllocatorPtr objects: state, ptr_, allocator_
    released            \* per pointer: calls of deallocate made by handles

alloc_vars == <<block_size_, num_blocks_, memory_pool_, block_bitmap_,
                free_blocks_count_, stats_>>
caller_vars == <<ptrs, op, ncalls>>
driver_vars == <<pc, attempt, dealloc_ok>>
thread_vars == <<tpc, tloc, tptr, tlive, tcycles>>
extra_vars == <<ctor, payload, handles, released>>
vars == <<block_size_, num_blocks_, memory_pool_, block_bitmap_,
          free_blocks_count_, stats_, ptrs, op, ncalls, pc, attempt,
          dealloc_ok, tpc, tloc, tptr, tlive, tcycles, ctor, payload,
          handles, released>>

(* --------------------------- size_t arithmetic ------------------------- *)
SizeT(x) == x % SizeMod

RECURSIVE BitAnd(_, _)
BitAnd(a, b) ==
    IF a = 0 \/ b = 0 THEN 0
    ELSE (a % 2) * (b % 2) + 2 * BitAnd(a \div 2, b \div 2)

BitNot(a) == SizeMod - 1 - a

\* block_size_ = (block_size + alignment_ - 1) & ~(alignment_ - 1);
align_block_size(block_size, alignment) ==
    BitAnd(SizeT(block_size + alignment - 1), BitNot(SizeT(alignment - 1)))

(* ------------------------------ inputs --------------------------------- *)
BlockSizes == 1..MaxBlockSize
BlockCounts == 1..MaxBlocks
\* posix_memalign returns a non-null address that is a multiple of alignment_
PoolBases == {Alignment * k : k \in 1..MaxBaseSlots}
\* the addresses a caller may pass: null, below, inside and beyond any pool
AddrTop == Alignment * MaxBaseSlots
           + align_block_size(MaxBlockSize, Alignment) * MaxBlocks + Alignment
Addrs == 0..AddrTop

(* ----------------------- const member functions ------------------------ *)
get_block_size == block_size_
get_total_blocks == num_blocks_
get_free_blocks == free_blocks_count_

get_used_blocks == SizeT(num_blocks_ - free_blocks_count_)

is_full == free_blocks_count_ = 0
is_empty == free_blocks_count_ = num_blocks_

\* is_valid_pointer with > in place of >= at the end of the pool
is_valid_pointer_inclusive_end(p) ==
    IF p = NULL \/ memory_pool_ = NULL THEN FALSE
    ELSE IF p < memory_pool_
            \/ p > memory_pool_ + SizeT(block_size_ * num_blocks_)
         THEN FALSE
         ELSE ((p - memory_pool_) % block_size_) = 0
is_valid_pointer(p) ==
    IF p = NULL \/ memory_pool_ = NULL THEN FALSE
    ELSE IF p < memory_pool_
            \/ p >= memory_pool_ + SizeT(block_size_ * num_blocks_)
         THEN FALSE
         ELSE ((p - memory_pool_) % block_size_) = 0

ptr_to_block_index(p) == (p - memory_pool_) \div block_size_
block_index_to_ptr(index) == memory_pool_ + SizeT(index * block_size_)

RECURSIVE scan_from(_, _, _)
scan_from(bitmap, n, i) ==
    IF i >= n THEN n
    ELSE IF ~bitmap[i] THEN i
    ELSE scan_from(bitmap, n, i + 1)

\* find_free_block that does not look at the bitmap
find_free_block_first_slot(bitmap, n) == IF n > 0 THEN 0 ELSE n
\* a find_free_block() that scans from the highest index down
find_free_block_from_top(bitmap, n) ==
    LET free == {i \in 0..(n - 1) : ~bitmap[i]}
    IN  IF free = {} THEN n
        ELSE CHOOSE i \in free : \A j \in free : j <= i
find_free_block(bitmap, n) == scan_from(bitmap, n, 0)

is_block_free(index) == ~block_bitmap_[index]

(* ---------------------------- construction ----------------------------- *)
ZeroStats == [allocation_failures |-> 0, double_free_attempts |-> 0,
              invalid_free_attempts |-> 0]

NoOp == [name |-> "none", arg |-> NULL, ret |-> NULL, live |-> FALSE]

\* the constructor has returned: its arguments are out of scope
CtorReturned == [pc |-> "returned", block_size |-> NULL, num_blocks |-> NULL,
                 result |-> "ok", pool_held |-> TRUE]

\* FixedAllocator(block_size, num_blocks) with the pool placed at base
Constructed(block_size, num_blocks, base) ==
    /\ block_size_ = align_block_size(block_size, Alignment)
    /\ num_blocks_ = num_blocks
    /\ memory_pool_ = base
    /\ block_bitmap_ = [i \in 0..(num_blocks - 1) |-> FALSE]
    /\ free_blocks_count_ = num_blocks
    /\ stats_ = ZeroStats
    /\ payload = [i \in 0..(num_blocks - 1) |-> ZERO_BYTE]
    /\ ctor = CtorReturned

\* no AllocatorPtr exists
Handles == 1..MaxHandles
HandlePtrs == 1..MaxHandlePtrs
HandlesIdle ==
    /\ handles = [h \in Handles |->
                    [state |-> "unborn", ptr_ |-> NULL, allocator_ |-> NULL,
                     given |-> NULL, owner |-> NULL]]
    /\ released = [p \in HandlePtrs |-> 0]

CallerIdle == ptrs = <<>> /\ op = NoOp /\ ncalls = 0
DriverIdle == pc = "idle" /\ attempt = 0 /\ dealloc_ok = <<>>
ThreadsIdle ==
    /\ tpc = [t \in 1..NumThreads |-> "idle"]
    /\ tloc = [t \in 1..NumThreads |-> [i |-> 0, word |-> <<>>]]
    /\ tptr = [t \in 1..NumThreads |-> NULL]
    /\ tlive = [t \in 1..NumThreads |-> <<>>]
    /\ tcycles = [t \in 1..NumThreads |-> 0]

Init ==
    /\ \E bs \in BlockSizes, n \in BlockCounts, base \in PoolBases :
          Constructed(bs, n, base)
    /\ CallerIdle
    /\ DriverIdle
    /\ ThreadsIdle
    /\ HandlesIdle

(* ------------------------- allocate / deallocate ----------------------- *)
\* a mark_block_used that also marks the block after index
mark_block_used_and_next(index) ==
    /\ block_bitmap_' = [j \in DOMAIN block_bitmap_ |->
                            j = index \/ j = index + 1 \/ block_bitmap_[j]]
    /\ free_blocks_count_' = SizeT(free_blocks_count_ - 1)

\* mark_block_used: block_bitmap_[index] = true; --free_blocks_count_;
mark_block_used(index) ==
    /\ block_bitmap_' = [block_bitmap_ EXCEPT ![index] = TRUE]
    /\ free_blocks_count_' = SizeT(free_blocks_count_ - 1)

\* mark_block_free: block_bitmap_[index] = false; ++free_blocks_count_;
mark_block_free(index) ==
    /\ block_bitmap_' = [block_bitmap_ EXCEPT ![index] = FALSE]
    /\ free_blocks_count_' = SizeT(free_blocks_count_ + 1)

\* the index allocate() works on, and what it returns
allocate_index == find_free_block(block_bitmap_, num_blocks_)
allocate_result ==
    IF allocate_index >= num_blocks_ THEN NULL
    ELSE block_index_to_ptr(allocate_index)

\* allocate() with the counter decremented before the check for exhaustion
allocate_effect_counts_before_check ==
    /\ IF allocate_index >= num_blocks_
       THEN /\ UNCHANGED block_bitmap_
            /\ free_blocks_count_' = SizeT(free_blocks_count_ - 1)
       ELSE mark_block_used(allocate_index)
    /\ UNCHANGED <<block_size_, num_blocks_, memory_pool_, stats_>>

\* the effect of allocate() on the allocator
allocate_effect ==
    /\ IF allocate_index >= num_blocks_
       THEN UNCHANGED <<block_bitmap_, free_blocks_count_>>
       ELSE mark_block_used(allocate_index)
    /\ UNCHANGED <<block_size_, num_blocks_, memory_pool_, stats_>>

\* deallocate(ptr) prints a message and returns false
deallocate_result(p) == FALSE
\* a deallocate that marks the block free although it reports failure
deallocate_effect_frees_on_failure(p) ==
    /\ IF is_valid_pointer(p)
       THEN mark_block_free(ptr_to_block_index(p))
       ELSE UNCHANGED <<block_bitmap_, free_blocks_count_>>
    /\ UNCHANGED <<block_size_, num_blocks_, memory_pool_, stats_>>
deallocate_effect(p) == UNCHANGED alloc_vars

RangeOf(s) == {s[k] : k \in 1..Len(s)}
RECURSIVE RemoveFirst(_, _)
RemoveFirst(s, x) ==
    IF s = <<>> THEN <<>>
    ELSE IF Head(s) = x THEN Tail(s)
    ELSE <<Head(s)>> \o RemoveFirst(Tail(s), x)

(* ---------------- Spec: one caller, calls in any order ----------------- *)
allocate ==
    /\ UNCHANGED extra_vars
    /\ ncalls < MaxCalls
    /\ allocate_effect
    /\ op' = [name |-> "allocate", arg |-> NULL, ret |-> allocate_result,
              live |-> FALSE]
    /\ ptrs' = IF allocate_result # NULL THEN Append(ptrs, allocate_result)
               ELSE ptrs
    /\ ncalls' = ncalls + 1
    /\ UNCHANGED <<driver_vars, thread_vars>>

deallocate(p) ==
    /\ UNCHANGED extra_vars
    /\ ncalls < MaxCalls
    /\ deallocate_effect(p)
    /\ op' = [name |-> "deallocate", arg |-> p, ret |-> deallocate_result(p),
              live |-> p \in RangeOf(ptrs)]
    /\ ptrs' = IF deallocate_result(p) THEN RemoveFirst(ptrs, p) ELSE ptrs
    /\ ncalls' = ncalls + 1
    /\ UNCHANGED <<driver_vars, thread_vars>>

Next ==
    \/ allocate
    \/ \E p \in Addrs : deallocate(p)

Spec == Init /\ [][Next]_vars

(* ------------- SpecLimits: test_allocator_limits of main.cpp ----------- *)
InitLimits ==
    /\ \E bs \in BlockSizes, n \in BlockCounts, base \in PoolBases :
          Constructed(bs, n, base)
    /\ CallerIdle
    /\ pc = "alloc_loop" /\ attempt = 0 /\ dealloc_ok = <<>>
    /\ ThreadsIdle
    /\ HandlesIdle

\* for (int i = 0; i < 5; ++i) { void* ptr = allocator.allocate(); ... }
limits_allocate ==
    /\ UNCHANGED extra_vars
    /\ pc = "alloc_loop"
    /\ attempt < ATTEMPTS
    /\ allocate_effect
    /\ op' = [name |-> "allocate", arg |-> NULL, ret |-> allocate_result,
              live |-> FALSE]
    /\ ptrs' = IF allocate_result # NULL THEN Append(ptrs, allocate_result)
               ELSE ptrs
    /\ ncalls' = ncalls + 1
    /\ attempt' = attempt + 1
    /\ UNCHANGED <<pc, dealloc_ok, thread_vars>>

limits_allocated ==
    /\ UNCHANGED extra_vars
    /\ pc = "alloc_loop"
    /\ attempt = ATTEMPTS
    /\ pc' = "dealloc_loop"
    /\ attempt' = 0
    /\ UNCHANGED <<alloc_vars, caller_vars, dealloc_ok, thread_vars>>

\* for (size_t i = 0; i < ptrs.size(); ++i) allocator.deallocate(ptrs[i]);
limits_deallocate ==
    /\ UNCHANGED extra_vars
    /\ pc = "dealloc_loop"
    /\ attempt < Len(ptrs)
    /\ deallocate_effect(ptrs[attempt + 1])
    /\ op' = [name |-> "deallocate", arg |-> ptrs[attempt + 1],
              ret |-> deallocate_result(ptrs[attempt + 1]), live |-> TRUE]
    /\ dealloc_ok' = Append(dealloc_ok, deallocate_result(ptrs[attempt + 1]))
    /\ ncalls' = ncalls + 1
    /\ attempt' = attempt + 1
    /\ UNCHANGED <<pc, ptrs, thread_vars>>

limits_final ==
    /\ UNCHANGED extra_vars
    /\ pc = "dealloc_loop"
    /\ attempt = Len(ptrs)
    /\ pc' = "final"
    /\ UNCHANGED <<alloc_vars, caller_vars, attempt, dealloc_ok, thread_vars>>

NextLimits ==
    \/ limits_allocate
    \/ limits_allocated
    \/ limits_deallocate
    \/ limits_final

SpecLimits == InitLimits /\ [][NextLimits]_vars

(* ---- SpecConc: threads running allocate()/deallocate(ptr) cycles ------ *)
Threads == 1..NumThreads

\* pools smaller than the number of threads
InitConc ==
    /\ \E bs \in BlockSizes, n \in 1..(NumThreads - 1), base \in PoolBases :
          Constructed(bs, n, base)
    /\ CallerIdle
    /\ DriverIdle
    /\ ThreadsIdle
    /\ HandlesIdle

\* a thread enters allocate(): find_free_block() starts at i = 0
t_call_allocate(t) ==
    /\ UNCHANGED extra_vars
    /\ tpc[t] = "idle"
    /\ tcycles[t] < Cycles
    /\ tpc' = [tpc EXCEPT ![t] = "find_free_block"]
    /\ tloc' = [tloc EXCEPT ![t] = [i |-> 0, word |-> <<>>]]
    /\ UNCHANGED <<alloc_vars, caller_vars, driver_vars, tptr, tlive, tcycles>>

\* a find_free_block() that starts over at the end of the bitmap instead of
\* giving up: it waits for a block to become free
t_find_free_block_step_waits(t) ==
    /\ UNCHANGED extra_vars
    /\ tpc[t] = "find_free_block"
    /\ tloc[t].i < num_blocks_
    /\ IF ~block_bitmap_[tloc[t].i]
       THEN /\ tpc' = [tpc EXCEPT ![t] = "mark_load"]
            /\ tloc' = tloc
       ELSE /\ tpc' = tpc
            /\ tloc' = [tloc EXCEPT ![t].i = (tloc[t].i + 1) % num_blocks_]
    /\ UNCHANGED <<alloc_vars, caller_vars, driver_vars, tptr, tlive, tcycles>>

\* one iteration of the loop of find_free_block(): a read of block_bitmap_[i]
t_find_free_block_step(t) ==
    /\ UNCHANGED extra_vars
    /\ tpc[t] = "find_free_block"
    /\ tloc[t].i < num_blocks_
    /\ IF ~block_bitmap_[tloc[t].i]
       THEN /\ tpc' = [tpc EXCEPT ![t] = "mark_load"]
            /\ tloc' = tloc
       ELSE /\ tpc' = tpc
            /\ tloc' = [tloc EXCEPT ![t].i = tloc[t].i + 1]
    /\ UNCHANGED <<alloc_vars, caller_vars, driver_vars, tptr, tlive, tcycles>>

\* find_free_block() returns num_blocks_ and allocate() returns nullptr:
\* the cycle ends without a deallocate
t_allocate_fails(t) ==
    /\ UNCHANGED extra_vars
    /\ tpc[t] = "find_free_block"
    /\ tloc[t].i >= num_blocks_
    /\ tpc' = [tpc EXCEPT ![t] = "idle"]
    /\ tptr' = [tptr EXCEPT ![t] = NULL]
    /\ tcycles' = [tcycles EXCEPT ![t] = tcycles[t] + 1]
    /\ UNCHANGED <<alloc_vars, caller_vars, driver_vars, tloc, tlive>>

\* block_bitmap_[index] = true on the packed vector<bool>: the word is read
t_mark_load(t) ==
    /\ UNCHANGED extra_vars
    /\ tpc[t] = "mark_load"
    /\ tloc' = [tloc EXCEPT ![t].word = block_bitmap_]
    /\ tpc' = [tpc EXCEPT ![t] = "mark_store"]
    /\ UNCHANGED <<alloc_vars, caller_vars, driver_vars, tptr, tlive, tcycles>>

\* ... and written back with the bit set
t_mark_store(t) ==
    /\ UNCHANGED extra_vars
    /\ tpc[t] = "mark_store"
    /\ block_bitmap_' = [tloc[t].word EXCEPT ![tloc[t].i] = TRUE]
    /\ tpc' = [tpc EXCEPT ![t] = "count"]
    /\ UNCHANGED <<block_size_, num_blocks_, memory_pool_, free_blocks_count_,
                   stats_, caller_vars, driver_vars, tloc, tptr, tlive,
                   tcycles>>

\* --free_blocks_count_ (std::atomic<size_t>), then
\* return block_index_to_ptr(free_index)
t_count_and_return(t) ==
    /\ UNCHANGED extra_vars
    /\ tpc[t] = "count"
    /\ free_blocks_count_' = SizeT(free_blocks_count_ - 1)
    /\ tptr' = [tptr EXCEPT ![t] = block_index_to_ptr(tloc[t].i)]
    /\ tlive' = [tlive EXCEPT
                    ![t] = Append(tlive[t], block_index_to_ptr(tloc[t].i))]
    /\ tpc' = [tpc EXCEPT ![t] = "deallocate"]
    /\ UNCHANGED <<block_size_, num_blocks_, memory_pool_, block_bitmap_,
                   stats_, caller_vars, driver_vars, tloc, tcycles>>

\* deallocate(ptr) of the pointer obtained in this cycle
t_deallocate(t) ==
    /\ UNCHANGED extra_vars
    /\ tpc[t] = "deallocate"
    /\ deallocate_effect(tptr[t])
    /\ tlive' = IF deallocate_result(tptr[t])
                THEN [tlive EXCEPT ![t] = RemoveFirst(tlive[t], tptr[t])]
                ELSE tlive
    /\ tpc' = [tpc EXCEPT ![t] = "idle"]
    /\ tcycles' = [tcycles EXCEPT ![t] = tcycles[t] + 1]
    /\ UNCHANGED <<caller_vars, driver_vars, tloc, tptr>>

NextConc ==
    \E t \in Threads :
        \/ t_call_allocate(t)
        \/ t_find_free_block_step(t)
        \/ t_allocate_fails(t)
        \/ t_mark_load(t)
        \/ t_mark_store(t)
        \/ t_count_and_return(t)
        \/ t_deallocate(t)

SpecConc == InitConc /\ [][NextConc]_vars

\* the steps of one thread
ThreadStep(t) ==
    \/ t_call_allocate(t)
    \/ t_find_free_block_step(t)
    \/ t_allocate_fails(t)
    \/ t_mark_load(t)
    \/ t_mark_store(t)
    \/ t_count_and_return(t)
    \/ t_deallocate(t)

\* one pool, smaller than the number of threads
InitConcFair ==
    /\ \E n \in 1..(NumThreads - 1) : Constructed(Alignment, n, Alignment)
    /\ CallerIdle
    /\ DriverIdle
    /\ ThreadsIdle
    /\ HandlesIdle

\* every thread that can take a step is eventually scheduled
SpecConcFair ==
    /\ InitConcFair
    /\ [][NextConc]_vars
    /\ \A t \in Threads : WF_vars(ThreadStep(t))

\* pools of any size up to MaxBlocks shared by the threads
InitConcPools ==
    /\ \E n \in BlockCounts : Constructed(Alignment, n, Alignment)
    /\ CallerIdle
    /\ DriverIdle
    /\ ThreadsIdle
    /\ HandlesIdle

SpecConcPools == InitConcPools /\ [][NextConc]_vars

AllThreadsDone ==
    \A t \in Threads : tpc[t] = "idle" /\ tcycles[t] = Cycles

(* ---- SpecPayload: one caller that also writes into its blocks --------- *)
\* the bytes a caller fills a block with
DataBytes == 1..MaxDataByte

\* the caller fills the payload of a block it obtained from allocate()
write_payload(p, v) ==
    /\ p \in RangeOf(ptrs)
    /\ payload' = [payload EXCEPT ![ptr_to_block_index(p)] = v]
    /\ UNCHANGED <<alloc_vars, caller_vars, driver_vars, thread_vars, ctor,
                   handles, released>>

NextPayload ==
    \/ allocate
    \/ \E p \in RangeOf(ptrs) : deallocate(p)
    \/ \E p \in RangeOf(ptrs), v \in DataBytes : write_payload(p, v)

SpecPayload == Init /\ [][NextPayload]_vars

(* ------- SpecCtor: FixedAllocator(block_size, num_blocks) step by step -- *)
\* the arguments: zero, small, and within alignment_ of the largest size_t
CtorBlockSizes == (0..MaxBlockSize) \cup ((SizeMod - Alignment)..(SizeMod - 1))
CtorBlockCounts == 0..MaxBlocks

\* the state after the member initializers: block_size_(block_size),
\* num_blocks_(num_blocks), free_blocks_count_(num_blocks); memory_pool_ is
\* not yet assigned (it is not read before posix_memalign assigns it)
InitCtor ==
    /\ \E bs \in CtorBlockSizes, n \in CtorBlockCounts :
          /\ block_size_ = bs
          /\ num_blocks_ = n
          /\ free_blocks_count_ = n
          /\ ctor = [pc |-> "validate", block_size |-> bs, num_blocks |-> n,
                     result |-> "none", pool_held |-> FALSE]
    /\ memory_pool_ = NULL
    /\ block_bitmap_ = <<>>
    /\ payload = <<>>
    /\ stats_ = ZeroStats
    /\ CallerIdle
    /\ DriverIdle
    /\ ThreadsIdle
    /\ HandlesIdle

ctor_frame == UNCHANGED <<stats_, caller_vars, driver_vars, thread_vars,
                          handles, released>>

\* if (block_size == 0 && num_blocks == 0) throw
ctor_validate_both_zero ==
    /\ ctor.pc = "validate"
    /\ IF ctor.block_size = 0 /\ ctor.num_blocks = 0
       THEN ctor' = [ctor EXCEPT !.pc = "thrown",
                                 !.result = "invalid_argument"]
       ELSE ctor' = [ctor EXCEPT !.pc = "align"]
    /\ UNCHANGED <<block_size_, num_blocks_, memory_pool_, block_bitmap_,
                   free_blocks_count_, payload>>
    /\ ctor_frame

\* if (block_size == 0 || num_blocks == 0) throw std::invalid_argument(...)
ctor_validate ==
    /\ ctor.pc = "validate"
    /\ IF ctor.block_size = 0 \/ ctor.num_blocks = 0
       THEN ctor' = [ctor EXCEPT !.pc = "thrown",
                                 !.result = "invalid_argument"]
       ELSE ctor' = [ctor EXCEPT !.pc = "align"]
    /\ UNCHANGED <<block_size_, num_blocks_, memory_pool_, block_bitmap_,
                   free_blocks_count_, payload>>
    /\ ctor_frame

\* block_size_ = (block_size + alignment_ - 1) & ~(alignment_ - 1);
ctor_align ==
    /\ ctor.pc = "align"
    /\ block_size_' = align_block_size(ctor.block_size, Alignment)
    /\ ctor' = [ctor EXCEPT !.pc = "memalign"]
    /\ UNCHANGED <<num_blocks_, memory_pool_, block_bitmap_,
                   free_blocks_count_, payload>>
    /\ ctor_frame

\* size_t total_size = block_size_ * num_blocks_;
total_size == SizeT(block_size_ * num_blocks_)

\* what posix_memalign may store on success: an aligned address, or a null
\* pointer when the size asked for is 0
MemalignResults ==
    PoolBases \cup (IF total_size = 0 THEN {NULL} ELSE {})

\* posix_memalign(&ptr, alignment_, total_size) == 0; memory_pool_ = ptr;
\* std::memset(memory_pool_, 0, total_size);
ctor_memalign_ok ==
    /\ ctor.pc = "memalign"
    /\ \E base \in MemalignResults : memory_pool_' = base
    /\ payload' = [i \in 0..(num_blocks_ - 1) |-> ZERO_BYTE]
    /\ ctor' = [ctor EXCEPT !.pc = "bitmap", !.pool_held = TRUE]
    /\ UNCHANGED <<block_size_, num_blocks_, block_bitmap_,
                   free_blocks_count_>>
    /\ ctor_frame

\* posix_memalign(...) != 0: throw std::bad_alloc()
ctor_memalign_fails ==
    /\ ctor.pc = "memalign"
    /\ ctor' = [ctor EXCEPT !.pc = "thrown", !.result = "bad_alloc"]
    /\ UNCHANGED <<block_size_, num_blocks_, memory_pool_, block_bitmap_,
                   free_blocks_count_, payload>>
    /\ ctor_frame

\* block_bitmap_.resize(num_blocks_, false);
ctor_init_bitmap ==
    /\ ctor.pc = "bitmap"
    /\ block_bitmap_' = [i \in 0..(num_blocks_ - 1) |-> FALSE]
    /\ ctor' = [ctor EXCEPT !.pc = "done", !.result = "ok"]
    /\ UNCHANGED <<block_size_, num_blocks_, memory_pool_,
                   free_blocks_count_, payload>>
    /\ ctor_frame

NextCtor ==
    \/ ctor_validate
    \/ ctor_align
    \/ ctor_memalign_ok
    \/ ctor_memalign_fails
    \/ ctor_init_bitmap

SpecCtor == InitCtor /\ [][NextCtor]_vars

(* ------------------------------- claims -------------------------------- *)
AllUsed == \A i \in 0..(num_blocks_ - 1) : block_bitmap_[i]
PoolEnd == memory_pool_ + block_size_ * num_blocks_
OnBlockBoundary(p) ==
    \E k \in 0..AddrTop : p = memory_pool_ + k * block_size_

\* C1: in every state reachable by allocate() and deallocate() calls,
\* get_free_blocks() + get_used_blocks() == get_total_blocks().
C1_FreePlusUsedIsTotal ==
    get_free_blocks + get_used_blocks = get_total_blocks

C1_Witness ==
    /\ num_blocks_ = 3
    /\ free_blocks_count_ = 1
    /\ op.name = "deallocate"

\* C2: on a fresh pool of K blocks the first K allocate() calls all succeed
\* and return pairwise-distinct pointers, each inside the pool and on a
\* block boundary.
C2_FirstKAllocationsDistinct ==
    /\ (pc = "alloc_loop" /\ attempt <= num_blocks_) => Len(ptrs) = attempt
    /\ \A j, k \in 1..Len(ptrs) : j # k => ptrs[j] # ptrs[k]
    /\ \A j \in 1..Len(ptrs) :
          /\ memory_pool_ <= ptrs[j]
          /\ ptrs[j] < PoolEnd
          /\ OnBlockBoundary(ptrs[j])

C2_Witness ==
    /\ pc = "alloc_loop"
    /\ num_blocks_ = 3
    /\ attempt = 3
    /\ Len(ptrs) = 3

\* C3: when every block is Allocated, allocate() returns absent, increases
\* allocation_failures by exactly 1, leaves block states and counts
\* unchanged, and afterwards is_full() is true and is_empty() is false.
C3_ExhaustedAllocateStep ==
    (op'.name = "allocate" /\ ncalls' = ncalls + 1 /\ AllUsed) =>
        /\ op'.ret = NULL
        /\ stats_'.allocation_failures = stats_.allocation_failures + 1
        /\ UNCHANGED <<block_bitmap_, free_blocks_count_>>
        /\ free_blocks_count_' = 0
        /\ free_blocks_count_' # num_blocks_'
C3_ExhaustedAllocateCountsFailure == [][C3_ExhaustedAllocateStep]_vars

\* C4: deallocate(p) of a pointer returned by allocate() and not yet
\* deallocated returns success, moves the block from Allocated to Free and
\* increases get_free_blocks() by exactly 1.
C4_DeallocateLiveStep ==
    (op'.name = "deallocate" /\ ncalls' = ncalls + 1 /\ op'.live) =>
        /\ op'.ret = TRUE
        /\ block_bitmap_[ptr_to_block_index(op'.arg)]
        /\ ~block_bitmap_'[ptr_to_block_index(op'.arg)]
        /\ free_blocks_count_' = free_blocks_count_ + 1
C4_DeallocateFreesLiveBlock == [][C4_DeallocateLiveStep]_vars

\* C5: double free is a no-op on pool state: when deallocate(p) is called
\* twice in a row on a pointer p obtained from allocate(), the first call
\* returns success, the second returns failure, increases
\* double_free_attempts by exactly 1 and changes no count and no block state.
C5_SecondDeallocateStep ==
    (/\ op.name = "deallocate" /\ op.live
     /\ op'.name = "deallocate" /\ op'.arg = op.arg
     /\ ncalls' = ncalls + 1) =>
        /\ op.ret = TRUE
        /\ op'.ret = FALSE
        /\ stats_'.double_free_attempts = stats_.double_free_attempts + 1
        /\ UNCHANGED <<block_bitmap_, free_blocks_count_>>
C5_DoubleFreeRejectedAndCounted == [][C5_SecondDeallocateStep]_vars

\* C6: deallocate(p) with is_valid_pointer(p) false returns failure,
\* increments invalid_free_attempts and never double_free_attempts, and
\* changes no block state and no count.
C6_InvalidDeallocateStep ==
    (op'.name = "deallocate" /\ ncalls' = ncalls + 1
     /\ ~is_valid_pointer(op'.arg)) =>
        /\ op'.ret = FALSE
        /\ stats_'.invalid_free_attempts = stats_.invalid_free_attempts + 1
        /\ stats_'.double_free_attempts = stats_.double_free_attempts
        /\ UNCHANGED <<block_bitmap_, free_blocks_count_>>
C6_InvalidFreeRejectedAndCounted == [][C6_InvalidDeallocateStep]_vars

\* C7: is_valid_pointer(p) is true exactly when p is non-null, inside
\* [pool_base, pool_base + block_size*num_blocks) and at a multiple of the
\* block size from pool_base, whether the block is Free or Allocated; it
\* stays true for a pointer obtained from allocate() and handed back to
\* deallocate().
C7_ValidPointerIsStructural ==
    /\ \A p \in Addrs :
          is_valid_pointer(p) <=>
             (/\ p # NULL
              /\ memory_pool_ <= p
              /\ p < PoolEnd
              /\ OnBlockBoundary(p))
    /\ \A j \in 1..Len(ptrs) : is_valid_pointer(ptrs[j])
    /\ (op.name = "deallocate" /\ op.live) => is_valid_pointer(op.arg)

C7_Witness ==
    /\ op.name = "deallocate" /\ op.live
    /\ \E p, q \in Addrs :
          /\ is_valid_pointer(p) /\ block_bitmap_[ptr_to_block_index(p)]
          /\ is_valid_pointer(q) /\ ~block_bitmap_[ptr_to_block_index(q)]

\* C10: after allocating until the pool is exhausted and deallocating each
\* pointer obtained once, every deallocate returned success and the pool is
\* back in its initial state, so that blocks can be allocated again.
C10_RoundTripRestoresPool ==
    pc = "final" =>
        /\ Len(dealloc_ok) = num_blocks_
        /\ \A k \in 1..Len(dealloc_ok) : dealloc_ok[k]
        /\ get_free_blocks = get_total_blocks
        /\ is_empty
        /\ ~is_full
        /\ allocate_result # NULL

\* C8: no double-issue under concurrency: at no instant do two live
\* allocations (returned by allocate and not yet successfully deallocated)
\* have the same pointer.
C8_NoDoubleIssue ==
    \A t, u \in Threads :
        \A j \in 1..Len(tlive[t]), k \in 1..Len(tlive[u]) :
            (t # u \/ j # k) => tlive[t][j] # tlive[u][k]

\* C9: when N threads each ran M allocate()/deallocate() cycles on a pool of
\* capacity K < N, once all threads have finished get_used_blocks() == 0
\* and get_free_blocks() == K.
C9_BalancedUseRestoresPool ==
    AllThreadsDone =>
        /\ get_used_blocks = 0
        /\ get_free_blocks = num_blocks_

IsPowerOfTwo(a) == a > 0 /\ BitAnd(a, a - 1) = 0
BlockIndexes == 0..(num_blocks_ - 1)
CallFailed(call) ==
    \/ call.name = "allocate" /\ call.ret = NULL
    \/ call.name = "deallocate" /\ call.ret = FALSE

\* C11: a block changes from Free to Allocated only in a successful
\* allocate() that returns that block, and from Allocated to Free only in a
\* successful deallocate() of that block's pointer; every call that returns
\* failure or absent leaves all block states unchanged.
C11_TransitionStep ==
    /\ \A i \in BlockIndexes :
          /\ (~block_bitmap_[i] /\ block_bitmap_'[i]) =>
                /\ ncalls' = ncalls + 1
                /\ op'.name = "allocate"
                /\ op'.ret = block_index_to_ptr(i)
          /\ (block_bitmap_[i] /\ ~block_bitmap_'[i]) =>
                /\ ncalls' = ncalls + 1
                /\ op'.name = "deallocate"
                /\ op'.ret = TRUE
                /\ op'.arg = block_index_to_ptr(i)
    /\ (ncalls' = ncalls + 1 /\ CallFailed(op')) =>
          block_bitmap_' = block_bitmap_
C11_OnlyCallsMoveBlocks == [][C11_TransitionStep]_vars

C11_Witness ==
    /\ op.name = "deallocate" /\ op.ret = FALSE /\ ~op.live
    /\ is_valid_pointer(op.arg)
    /\ \E i, j \in BlockIndexes : block_bitmap_[i] /\ ~block_bitmap_[j]

\* C12: construction fails with a configuration error, producing no
\* allocator and retaining no pool memory, if block_size == 0 or
\* num_blocks == 0 or alignment is not a power of two; for every other
\* configuration, when the system supplies the memory, construction
\* succeeds with all num_blocks blocks Free.
C12_ConstructionOutcome ==
    (ctor.pc \in {"done", "thrown"}) =>
        IF ctor.block_size = 0 \/ ctor.num_blocks = 0
           \/ ~IsPowerOfTwo(Alignment)
        THEN /\ ctor.pc = "thrown"
             /\ ctor.result = "invalid_argument"
             /\ ~ctor.pool_held
        ELSE ctor.result # "bad_alloc" =>
                /\ ctor.pc = "done"
                /\ ctor.result = "ok"
                /\ num_blocks_ = ctor.num_blocks
                /\ DOMAIN block_bitmap_ = 0..(ctor.num_blocks - 1)
                /\ \A i \in DOMAIN block_bitmap_ : ~block_bitmap_[i]
                /\ free_blocks_count_ = ctor.num_blocks

C12_Witness ==
    /\ ctor.pc = "thrown"
    /\ ctor.result = "invalid_argument"
    /\ ctor.block_size > 0
    /\ ctor.num_blocks = 0

\* C18: for every block_size > 0 the block size used by the pool
\* (get_block_size()) is the smallest multiple of alignment that is
\* >= block_size, also for block_size within alignment-1 of the largest
\* size_t value, where block_size + alignment - 1 wraps around.
C18_BlockSizeIsRoundUp ==
    (ctor.pc = "done" /\ ctor.block_size > 0) =>
        /\ get_block_size % Alignment = 0
        /\ get_block_size >= ctor.block_size
        /\ get_block_size < ctor.block_size + Alignment

\* C13: with poison_on_free enabled, after deallocate(p) of a pointer
\* obtained from allocate() the call has succeeded and every payload byte of
\* p's block holds the poison pattern, not the data the caller had written.
C13_DeallocateStep ==
    (op'.name = "deallocate" /\ ncalls' = ncalls + 1 /\ op'.live) =>
        /\ op'.ret = TRUE
        /\ payload'[ptr_to_block_index(op'.arg)] = POISON_BYTE
C13_FreedPayloadIsPoisoned == [][C13_DeallocateStep]_vars

\* C14: every allocate() and deallocate() call terminates without waiting:
\* a call never starts its search over, on an exhausted pool allocate()
\* gives up, and in any fair interleaving every call eventually returns:
\* all threads get to the end of their last call.
C14_NoRestartStep ==
    \A t \in Threads :
        (tpc[t] = "find_free_block" /\ tpc'[t] = "find_free_block") =>
            tloc'[t].i >= tloc[t].i
C14_EveryCallReturns ==
    /\ [][C14_NoRestartStep]_vars
    /\ <>AllThreadsDone

C14_Witness ==
    \E t, u \in Threads :
        /\ t # u
        /\ tpc[t] = "find_free_block"
        /\ tloc[t].i >= num_blocks_
        /\ tpc[u] \in {"mark_load", "mark_store", "count"}

\* the blocks some thread holds a pointer to, and the blocks the free
\* structure (the bitmap entries that are false) offers to allocate()
LiveBlocks ==
    UNION {{ptr_to_block_index(tlive[t][j]) : j \in 1..Len(tlive[t])} :
              t \in Threads}
FreeStructure == {i \in BlockIndexes : is_block_free(i)}
AllThreadsIdle == \A t \in Threads : tpc[t] = "idle"

\* C15: free-structure integrity under concurrent reuse: in every
\* interleaving of concurrent allocate()/deallocate() calls no Allocated
\* block is reachable in the free structure, and between calls the free
\* structure holds exactly the Free blocks.
C15_FreeStructureIntegrity ==
    /\ LiveBlocks \cap FreeStructure = {}
    /\ AllThreadsIdle => FreeStructure = BlockIndexes \ LiveBlocks

\* C16: initial issue order: on a freshly constructed pool the free
\* structure starts at block 0 and continues with block i+1 after block i,
\* so the j-th allocate() (j = 1..num_blocks, no deallocate in between)
\* returns the block with index j-1, the pointer
\* pool_base + (j-1)*block_size_aligned.
C16_InitialIssueOrder ==
    /\ (pc = "alloc_loop" /\ attempt <= num_blocks_) =>
          /\ Len(ptrs) = attempt
          /\ \A i \in BlockIndexes : is_block_free(i) <=> i >= attempt
    /\ \A j \in 1..Len(ptrs) :
          /\ ptrs[j] = memory_pool_ + (j - 1) * block_size_
          /\ ptr_to_block_index(ptrs[j]) = j - 1

C16_Witness ==
    /\ pc = "alloc_loop"
    /\ attempt = ATTEMPTS
    /\ block_size_ = 2 * Alignment
    /\ Len(ptrs) = MaxBlocks
    /\ ptrs[MaxBlocks] = memory_pool_ + (MaxBlocks - 1) * block_size_

\* C17: LIFO reuse: in a single-threaded run the allocate() that
\* immediately follows a deallocate(p) of a pointer p obtained from
\* allocate() finds that deallocate successful and returns p, whatever the
\* index of p's block and whatever other blocks are free.
C17_AllocateAfterDeallocateStep ==
    (/\ op.name = "deallocate"
     /\ op.live
     /\ op'.name = "allocate"
     /\ ncalls' = ncalls + 1) =>
        /\ op.ret = TRUE
        /\ op'.ret = op.arg
C17_LifoReuse == [][C17_AllocateAfterDeallocateStep]_vars

\* ---------------------------------------------------------------------
\* AllocatorPtr<T>: the scoped handle of IAllocator.h.  handles[h].given and
\* .owner record the arguments of the constructor that made h; released[p]
\* counts the calls allocator_->deallocate(p) the handles have made.
\* ---------------------------------------------------------------------
THE_ALLOCATOR == 1
HandleAllocators == {NULL, THE_ALLOCATOR}
HandleExists(h) == handles[h].state \in {"live", "moved_from"}
HandleInit ==
    /\ Constructed(Alignment, 1, Alignment)
    /\ CallerIdle
    /\ DriverIdle
    /\ ThreadsIdle
    /\ HandlesIdle

\* if (ptr_ && allocator_) allocator_->deallocate(ptr_);
handle_release(h) ==
    IF handles[h].ptr_ # NULL /\ handles[h].allocator_ # NULL
    THEN /\ deallocate_effect(handles[h].ptr_)
         /\ released' = [released EXCEPT ![handles[h].ptr_] = @ + 1]
    ELSE UNCHANGED <<alloc_vars, released>>

\* AllocatorPtr(T* ptr, IAllocator* allocator): the caller wraps a pointer
\* it has not wrapped before, or nullptr
h_construct(h, p, a) ==
    /\ handles[h].state = "unborn"
    /\ p # NULL => \A g \in Handles : handles[g].given # p
    /\ handles' = [handles EXCEPT
                      ![h] = [state |-> "live", ptr_ |-> p, allocator_ |-> a,
                              given |-> p, owner |-> a]]
    /\ UNCHANGED <<alloc_vars, caller_vars, driver_vars, thread_vars, ctor,
                   payload, released>>

\* AllocatorPtr(AllocatorPtr&& other)
h_move_construct(h, other) ==
    /\ h # other
    /\ handles[h].state = "unborn"
    /\ HandleExists(other)
    /\ handles' = [handles EXCEPT
                      ![h] = [state |-> "live",
                              ptr_ |-> handles[other].ptr_,
                              allocator_ |-> handles[other].allocator_,
                              given |-> NULL, owner |-> NULL],
                      ![other] = [@ EXCEPT !.state = "moved_from",
                                           !.ptr_ = NULL,
                                           !.allocator_ = NULL]]
    /\ UNCHANGED <<alloc_vars, caller_vars, driver_vars, thread_vars, ctor,
                   payload, released>>

\* an operator=(AllocatorPtr&&) that leaves other.ptr_ in place
h_move_assign_keeps_source(h, other) ==
    /\ HandleExists(h)
    /\ HandleExists(other)
    /\ IF h # other
       THEN /\ handle_release(h)
            /\ handles' = [handles EXCEPT
                              ![h] = [@ EXCEPT
                                         !.state = "live",
                                         !.ptr_ = handles[other].ptr_,
                                         !.allocator_ =
                                             handles[other].allocator_],
                              ![other] = [@ EXCEPT !.state = "moved_from"]]
       ELSE UNCHANGED <<alloc_vars, handles, released>>
    /\ UNCHANGED <<caller_vars, driver_vars, thread_vars, ctor, payload>>

\* AllocatorPtr& operator=(AllocatorPtr&& other)
h_move_assign(h, other) ==
    /\ HandleExists(h)
    /\ HandleExists(other)
    /\ IF h # other
       THEN /\ handle_release(h)
            /\ handles' = [handles EXCEPT
                              ![h] = [@ EXCEPT
                                         !.state = "live",
                                         !.ptr_ = handles[other].ptr_,
                                         !.allocator_ =
                                             handles[other].allocator_],
                              ![other] = [@ EXCEPT !.state = "moved_from",
                                                   !.ptr_ = NULL,
                                                   !.allocator_ = NULL]]
       ELSE UNCHANGED <<alloc_vars, handles, released>>
    /\ UNCHANGED <<caller_vars, driver_vars, thread_vars, ctor, payload>>

\* ~AllocatorPtr()
h_destroy(h) ==
    /\ HandleExists(h)
    /\ handle_release(h)
    /\ handles' = [handles EXCEPT ![h].state = "destroyed"]
    /\ UNCHANGED <<caller_vars, driver_vars, thread_vars, ctor, payload>>

NextHandles ==
    \/ \E h \in Handles, p \in HandlePtrs \cup {NULL},
          a \in HandleAllocators : h_construct(h, p, a)
    \/ \E h, other \in Handles : h_move_construct(h, other)
    \/ \E h, other \in Handles : h_move_assign(h, other)
    \/ \E h \in Handles : h_destroy(h)

SpecHandles == HandleInit /\ [][NextHandles]_vars

\* the pointers given to a handle together with an owning allocator, and
\* the handles that hold a pointer now
GivenPtrs ==
    {handles[h].given : h \in {g \in Handles : handles[g].owner # NULL}}
        \ {NULL}
Holders(p) == {h \in Handles : HandleExists(h) /\ handles[h].ptr_ = p}

\* C19: AllocatorPtr releases each wrapped block exactly once: over any
\* sequence of move-constructions, move-assignments and destructions, every
\* non-null pointer given to a handle is either held by exactly one handle
\* and not yet passed to deallocate, or held by none and passed to
\* deallocate exactly once; the destruction of a moved-from handle
\* deallocates nothing; a move-assignment deallocates the pointer the target
\* was holding.
C19_HeldOrReleasedOnce ==
    \A p \in HandlePtrs :
        IF p \in GivenPtrs
        THEN Cardinality(Holders(p)) + released[p] = 1
        ELSE released[p] = 0
C19_MovedFromDestroyStep ==
    \A h \in Handles :
        (handles[h].state = "moved_from" /\ handles'[h].state = "destroyed")
            => released' = released
C19_MoveAssignStep ==
    \A h, other \in Handles :
        (/\ h # other
         /\ HandleExists(h)
         /\ HandleExists(other)
         /\ handles[h].ptr_ # NULL
         /\ handles[h].allocator_ # NULL
         /\ handles'[h].state = "live"
         /\ handles'[other].state = "moved_from"
         /\ handles'[h].ptr_ = handles[other].ptr_
         /\ handles' # handles) =>
            released' = [released EXCEPT ![handles[h].ptr_] = @ + 1]
C19_ReleasedExactlyOnce ==
    /\ []C19_HeldOrReleasedOnce
    /\ [][C19_MovedFromDestroyStep /\ C19_MoveAssignStep]_vars

C19_Witness ==
    /\ \A h \in Handles : handles[h].state = "destroyed"
    /\ \A p \in HandlePtrs : p \in GivenPtrs /\ released[p] = 1
    /\ \E h \in Handles : /\ handles[h].given # NULL
                          /\ handles[h].ptr_ # NULL
                          /\ handles[h].ptr_ # handles[h].given

\* the blocks whose bitmap entry is true
UsedStructure == {i \in BlockIndexes : ~is_block_free(i)}

\* C20: the free counter tracks the real block states: whenever no call is
\* in progress, get_free_blocks() equals the number of blocks whose bitmap
\* entry is false and get_used_blocks() the number of blocks whose entry is
\* true, so each block is counted in exactly one of the two.
C20_CounterTracksBitmap ==
    AllThreadsIdle =>
        /\ get_free_blocks = Cardinality(FreeStructure)
        /\ get_used_blocks = Cardinality(UsedStructure)

\* the smallest index whose bitmap entry is free (there is one)
LowestFreeIndex ==
    CHOOSE i \in FreeStructure : \A j \in FreeStructure : i <= j

\* C21: a successful single-threaded allocate() returns the Free block with
\* the lowest index, the pointer pool_base + i*block_size_aligned where i is
\* the smallest index whose bitmap entry is free, marks exactly that block
\* used and leaves every other block's state unchanged.
C21_SuccessfulAllocateStep ==
    (op'.name = "allocate" /\ ncalls' = ncalls + 1 /\ op'.ret # NULL) =>
        /\ FreeStructure # {}
        /\ op'.ret = memory_pool_ + LowestFreeIndex * block_size_
        /\ block_bitmap_'[LowestFreeIndex]
        /\ \A i \in BlockIndexes \ {LowestFreeIndex} :
              block_bitmap_'[i] = block_bitmap_[i]
        /\ DOMAIN block_bitmap_' = DOMAIN block_bitmap_
C21_AllocateTakesLowestFree == [][C21_SuccessfulAllocateStep]_vars

C21_Witness ==
    /\ op.name = "allocate"
    /\ num_blocks_ = MaxBlocks
    /\ op.ret = memory_pool_ + block_size_
    /\ block_bitmap_[0] /\ block_bitmap_[1]
    /\ FreeStructure = {i \in BlockIndexes : i >= 2}
    /\ FreeStructure # {}

\* C22: pointer/index conversion is a bijection on the pool of a constructed
\* allocator: for every index i in [0, num_blocks),
\* ptr_to_block_index(block_index_to_ptr(i)) = i and
\* is_valid_pointer(block_index_to_ptr(i)) is true; for every p with
\* is_valid_pointer(p) true, ptr_to_block_index(p) < num_blocks and
\* block_index_to_ptr(ptr_to_block_index(p)) = p.  (The division by
\* block_size_ in ptr_to_block_index has to be defined for that.)
C22_PointerIndexBijection ==
    (ctor.pc \in {"done", "returned"}) =>
        /\ block_size_ # 0
        /\ \A i \in BlockIndexes :
              /\ is_valid_pointer(block_index_to_ptr(i))
              /\ ptr_to_block_index(block_index_to_ptr(i)) = i
        /\ \A p \in Addrs :
              is_valid_pointer(p) =>
                 /\ ptr_to_block_index(p) < num_blocks_
                 /\ block_index_to_ptr(ptr_to_block_index(p)) = p

====
